---------------------------- MODULE Spec2Model ----------------------------
(***************************************************************************)
(* Model of the panel classification and aggregation engine of src/main.py *)
(* (JsonDataManager, ExcelAnalyzer, Api).                                  *)
(*                                                                         *)
(* Strings: TLA+ strings are kept ASCII, so the Turkish labels of the code *)
(* are transliterated: "ALT-UST" is 'ALT-ÜST', "SABIT" is 'SABİT',         *)
(* "RAF (UST)" is 'RAF (ÜST)', "KAYIT/KUSAK" is 'KAYIT/KUŞAK',             *)
(* "CEKMECE YANI" is 'ÇEKMECE YANI', "ARKALIK (ICERDE)" is                 *)
(* 'ARKALIK (İÇERDE)', "DIGER" is 'DİĞER'.  Where the code compares        *)
(* strings (pandas sort_values), StrRank gives the order of the original   *)
(* strings, not of the transliterations.                                   *)
(***************************************************************************)
EXTENDS Integers, Sequences, FiniteSets, TLC

VARIABLES
    materials,          \* materials.json: material code -> thickness
    learned,            \* learned_parts.json: "{boy}x{en}_{malzeme}" -> part type
    settings,           \* settings.json: the saved settings (defaults are merged on read)
    custom_modules,     \* Api.custom_modules: POZ -> {genislik, yukseklik, derinlik}
    custom_depths,      \* Api.custom_depths: POZ -> depth
    an_custom_modules,  \* ExcelAnalyzer.custom_modules, when it is an object of its own
    an_custom_shared,   \* TRUE when ExcelAnalyzer.custom_modules is Api.custom_modules (same dict)
    cabinet_settings,   \* Api.cabinet_settings: family -> {yukseklik, derinlik}
    an_cabinet_settings,\* ExcelAnalyzer.cabinet_settings, when it is an object of its own
    an_cabinet_shared,  \* TRUE when ExcelAnalyzer.cabinet_settings is Api.cabinet_settings
    df,                 \* the rows of the selected file (Api.current_file_paths[0], as read by pandas)
    last,               \* the response of the last Api call
    pass,               \* the analyze_only call that runs row by row on its own thread: its locals
    db,                 \* the SQLite database: the history rows, the AUTOINCREMENT sequence, the stats row
    um                  \* users.json, the tokens issued so far and the calls served so far

vars == << materials, learned, settings, custom_modules, custom_depths,
           an_custom_modules, an_custom_shared, cabinet_settings,
           an_cabinet_settings, an_cabinet_shared, df, last, pass, db, um >>

-----------------------------------------------------------------------------
(* Bounds of the model *)

MaxRows == 2        \* rows of a multi-row file
MaxMaterials == 1   \* entries of materials.json
MaxLearned == 1     \* entries of learned_parts.json
MaxJobs == 3        \* jobs ever added to the history
MaxExports == 2     \* exported files ever added to the history
MaxCalls == 3       \* remember-me logins and logouts served

-----------------------------------------------------------------------------
(* Program constants *)

GOVDE_KALINLIK == 18
CEKMECE_YAN_KALINLIK == 16
ARKALIK_KALINLIK == 8
DefaultTolerans == 5
FallbackTolerans == 10
UnknownOrder == 999

EmptyDict == << >>

Abs(x) == IF x < 0 THEN -x ELSE x

Max2(a, b) == IF a >= b THEN a ELSE b

Min2(a, b) == IF a <= b THEN a ELSE b

\* dict.get(k) used as a condition: the key is present and its value is truthy
Truthy(d, k) == k \in DOMAIN d /\ d[k] # 0

-----------------------------------------------------------------------------
(* JsonDataManager *)

default_settings ==
    [standart_yukseklik |-> 720, standart_derinlik |-> 580,
     ust_dolap_yukseklik |-> 720, ust_dolap_derinlik |-> 330,
     boy_dolap_yukseklik |-> 2100, boy_dolap_derinlik |-> 580,
     yan_dusumu |-> 36, raf_genislik_dusumu |-> 37,
     raf_derinlik_alt_dolap |-> 50, raf_derinlik_ust_dolap |-> 40,
     sabit_derinlik_dusumu |-> 23, arkalik_dusumu |-> 18,
     arkalik_icerde_dusumu |-> 37, cekmece_alti_dusumu |-> 60,
     tolerans |-> DefaultTolerans, arkalik_max_kalinlik |-> 8,
     kanalli_ayir |-> TRUE, govde_kalinlik |-> 18,
     cekmece_yan_kalinlik |-> 16, arkalik_kalinlik |-> 8]

\* get_settings: {**default_settings, **settings}
get_settings(saved) ==
    [k \in (DOMAIN default_settings) \cup (DOMAIN saved) |->
        IF k \in DOMAIN saved THEN saved[k] ELSE default_settings[k]]

\* settings.get('tolerans', 10)
Tolerans(saved) ==
    LET s == get_settings(saved)
    IN  IF "tolerans" \in DOMAIN s THEN s["tolerans"] ELSE FallbackTolerans

\* The key f"{boy}x{en}_{malzeme}": two integers in decimal, then the code.
\* The format is injective in (boy, en, malzeme), so the key is the triple.
StoreKey(boy, en, malzeme) == << boy, en, malzeme >>

\* save_learned_parts_bulk: learned[key] = part['partType'] for each part, in order
RECURSIVE save_learned_parts_bulk(_, _)
save_learned_parts_bulk(store, parts) ==
    IF parts = << >> THEN store
    ELSE LET p == Head(parts)
             key == StoreKey(p.boy, p.en, p.malzeme)
             upd == [k \in (DOMAIN store) \cup {key} |->
                        IF k = key THEN p.partType ELSE store[k]]
         IN  save_learned_parts_bulk(upd, Tail(parts))

\* save_material: materials[code] = thickness
save_material_db(materials_db, code, thickness) ==
    [c \in (DOMAIN materials_db) \cup {code} |->
        IF c = code THEN thickness ELSE materials_db[c]]

-----------------------------------------------------------------------------
(* Module names.  A module name is the sequence of its words; a number is  *)
(* a word of digits.                                                       *)

\* str.lower() on the words of the model
Lower(w) ==
    CASE w = "Alt" -> "alt"
      [] w = "Ust" -> "ust"
      [] w = "UST" -> "ust"
      [] w = "Boy" -> "boy"
      [] w = "CM"  -> "cm"
      [] OTHER     -> w

\* int(cm_match.group(1)) for the digit words of the model; 0 words are not digits
DigitsValue(w) ==
    CASE w = "45" -> 45
      [] w = "60" -> 60
      [] w = "80" -> 80
      [] OTHER    -> 0

IsDigits(w) == w \in {"45", "60", "80"}

\* re.search(r'(\d+)\s*cm', modul_adi.lower()): the leftmost number followed by cm;
\* None is modelled as 0 (every use is a truth test or follows one)
get_modul_genislik(modul_adi) ==
    LET hits == {i \in 1..(Len(modul_adi) - 1) :
                    IsDigits(modul_adi[i]) /\ Lower(modul_adi[i + 1]) = "cm"}
    IN  IF hits = {} THEN 0
        ELSE LET i == CHOOSE j \in hits : \A k \in hits : j <= k
             IN  DigitsValue(modul_adi[i]) * 10

\* 'üst' in s or 'ust' in s -> ust; 'boy' in s -> boy; else alt
DolapTipi(modul_adi) ==
    LET words == {Lower(modul_adi[i]) : i \in 1..Len(modul_adi)}
    IN  IF "ust" \in words THEN "ust"
        ELSE IF "boy" \in words THEN "boy"
        ELSE "alt"

\* check_kanalli / is_kanalli: a true token, or the pattern (SOL|SAĞ|SAG)_\d+\+\d+
check_kanalli(val) ==
    \/ val \in {"TRUE", "EVET", "YES", "1", "VAR"}
    \/ val \in {"SOL_13+9", "SAG_13+9"}

-----------------------------------------------------------------------------
(* Classification: what both classifiers share *)

\* a lookup that ignores the registry: always the default thickness
DbKalinlikDefaultOnly(materials_db, malzeme) == GOVDE_KALINLIK

\* materials_db.get(malzeme, GOVDE_KALINLIK)
DbKalinlik(materials_db, malzeme) ==
    IF malzeme \in DOMAIN materials_db THEN materials_db[malzeme] ELSE GOVDE_KALINLIK

\* a lookup key with the width before the length
LearnedKeyWidthFirst(boy, en, malzeme) == << en, boy, malzeme >>

\* learned_key = f"{boy}x{en}_{malzeme}"
LearnedKey(boy, en, malzeme) == << boy, en, malzeme >>

\* a thin tier that leaves out the threshold thickness itself
IsThinBelowOnly(db_kalinlik) == db_kalinlik < ARKALIK_KALINLIK

\* db_kalinlik <= ARKALIK_KALINLIK
IsThin(db_kalinlik) == db_kalinlik <= ARKALIK_KALINLIK

\* a comparison that lets twice the tolerance pass
NearTwice(x, target, tol) == Abs(x - target) <= 2 * tol

\* abs(x - target) <= TOLERANS
Near(x, target, tol) == Abs(x - target) <= tol

\* the tuple a classifier returns
Ret(tip, kalinlik, boy, en, kanalli) ==
    [tip |-> tip, kalinlik |-> kalinlik, boy |-> boy, en |-> en, kanalli |-> kanalli]

-----------------------------------------------------------------------------
(* ExcelAnalyzer.analyze_only.determine_part_type_with_module *)

\* self._get_custom_module_for_poz(poz) if poz else None; None is the empty dict
\* (every use is a truth test)
CustomModuleFor(cmods, poz) ==
    IF poz # "" /\ poz \in DOMAIN cmods THEN cmods[poz] ELSE EmptyDict

\* custom_module.get('genislik') if set, else the width of the module name
ResolveGenislik(custom_module, modul_adi) ==
    IF DOMAIN custom_module # {} /\ Truthy(custom_module, "genislik")
    THEN custom_module["genislik"]
    ELSE get_modul_genislik(modul_adi)

\* custom_<field> if custom_<field> else cabinet.get(<field>)
ResolveField(custom_module, cabinet, field) ==
    IF DOMAIN custom_module # {} /\ Truthy(custom_module, field)
    THEN custom_module[field]
    ELSE cabinet[field]

\* a thin tier that tests the recessed back panel first
ThinTierTypeRecessedFirst(boy, en, modul_gen, yukseklik, tol) ==
    IF modul_gen # 0 /\ Near(boy, yukseklik - 37, tol) /\ Near(en, modul_gen - 37, tol)
    THEN "ARKALIK (ICERDE)"
    ELSE "ARKALIK"

\* the thin tier: ARKALIK, ARKALIK (ICERDE), else ARKALIK
ThinTierType(boy, en, modul_gen, yukseklik, tol) ==
    IF modul_gen # 0 /\ Near(boy, yukseklik - 18, tol) /\ Near(en, modul_gen - 18, tol)
    THEN "ARKALIK"
    ELSE IF modul_gen # 0 /\ Near(boy, yukseklik - 37, tol) /\ Near(en, modul_gen - 37, tol)
    THEN "ARKALIK (ICERDE)"
    ELSE "ARKALIK"

\* a rule chain whose rail band reads the width only
StructuralTypeWidthBand(boy, en, kanalli, dolap_tipi, modul_gen, yukseklik, derinlik, tol) ==
    LET raf_dusum == IF dolap_tipi = "alt" \/ dolap_tipi = "boy" THEN 50 ELSE 40
    IN  IF Near(boy, yukseklik, tol) /\ Near(en, derinlik, tol)
        THEN "YAN"
        ELSE IF modul_gen # 0 /\ Near(boy, modul_gen - 36, tol) /\ Near(en, derinlik - 1, tol)
        THEN "ALT-UST"
        ELSE IF modul_gen # 0 /\ Near(boy, modul_gen - 36, tol) /\ Near(en, derinlik - 23, tol)
        THEN "SABIT"
        ELSE IF modul_gen # 0 /\ ~kanalli
                /\ Near(boy, modul_gen - 37, tol) /\ Near(en, derinlik - raf_dusum, tol)
        THEN (IF dolap_tipi = "ust" THEN "RAF (UST)" ELSE "RAF")
        ELSE IF Near(en, 579, tol) \/ Near(en, 329, tol)
        THEN "ALT-UST"
        ELSE IF Near(en, 557, tol) \/ Near(en, 307, tol)
        THEN "SABIT"
        ELSE IF ~kanalli /\ Near(en, 530, tol)
        THEN "RAF"
        ELSE IF ~kanalli /\ Near(en, 290, tol)
        THEN "RAF (UST)"
        ELSE IF 80 <= en /\ en <= 140
        THEN "KAYIT/KUSAK"
        ELSE "DIGER"

\* the structural rule chain, first match wins
StructuralType(boy, en, kanalli, dolap_tipi, modul_gen, yukseklik, derinlik, tol) ==
    LET raf_dusum == IF dolap_tipi = "alt" \/ dolap_tipi = "boy" THEN 50 ELSE 40
    IN  IF Near(boy, yukseklik, tol) /\ Near(en, derinlik, tol)
        THEN "YAN"
        ELSE IF modul_gen # 0 /\ Near(boy, modul_gen - 36, tol) /\ Near(en, derinlik - 1, tol)
        THEN "ALT-UST"
        ELSE IF modul_gen # 0 /\ Near(boy, modul_gen - 36, tol) /\ Near(en, derinlik - 23, tol)
        THEN "SABIT"
        ELSE IF modul_gen # 0 /\ ~kanalli
                /\ Near(boy, modul_gen - 37, tol) /\ Near(en, derinlik - raf_dusum, tol)
        THEN (IF dolap_tipi = "ust" THEN "RAF (UST)" ELSE "RAF")
        ELSE IF Near(en, 579, tol) \/ Near(en, 329, tol)
        THEN "ALT-UST"
        ELSE IF Near(en, 557, tol) \/ Near(en, 307, tol)
        THEN "SABIT"
        ELSE IF ~kanalli /\ Near(en, 530, tol)
        THEN "RAF"
        ELSE IF ~kanalli /\ Near(en, 290, tol)
        THEN "RAF (UST)"
        ELSE IF (80 <= en /\ en <= 140) \/ (80 <= boy /\ boy <= 140)
        THEN "KAYIT/KUSAK"
        ELSE "DIGER"

\* the cabinet width, height and depth a row is classified against
\* (modul_gen, yukseklik, derinlik)
ResolveProfile(row, cmods, cabs) ==
    LET custom_module == CustomModuleFor(cmods, row.POZ)
        cabinet == cabs[DolapTipi(row.MODUL)]
    IN  [genislik |-> ResolveGenislik(custom_module, row.MODUL),
         yukseklik |-> ResolveField(custom_module, cabinet, "yukseklik"),
         derinlik |-> ResolveField(custom_module, cabinet, "derinlik")]

determine_part_type_with_module(row, materials_db, learned_parts, tol, cmods, cabs) ==
    LET olcu1 == row.OLCU1
        olcu2 == row.OLCU2
        malzeme == row.MALZEME
        kanalli == check_kanalli(row.KANAL)
        db_kalinlik == DbKalinlik(materials_db, malzeme)
        boy == Max2(olcu1, olcu2)
        en == Min2(olcu1, olcu2)
        dolap_tipi == DolapTipi(row.MODUL)
        profile == ResolveProfile(row, cmods, cabs)
        modul_gen == profile.genislik
        yukseklik == profile.yukseklik
        derinlik == profile.derinlik
        learned_key == LearnedKey(boy, en, malzeme)
    IN  IF learned_key \in DOMAIN learned_parts
        THEN Ret(learned_parts[learned_key], db_kalinlik, boy, en, kanalli)
        ELSE IF IsThin(db_kalinlik)
        THEN Ret(ThinTierType(boy, en, modul_gen, yukseklik, tol),
                 db_kalinlik, boy, en, kanalli)
        ELSE Ret(StructuralType(boy, en, kanalli, dolap_tipi, modul_gen,
                                yukseklik, derinlik, tol),
                 db_kalinlik, boy, en, kanalli)

-----------------------------------------------------------------------------
(* ExcelAnalyzer.analyze_and_export.determine_part_type *)

\* modul_gen % 50 <= TOLERANS or (50 - modul_gen % 50) <= TOLERANS
NearMultipleOf50(modul_gen, tol) ==
    (modul_gen % 50 <= tol) \/ (50 - (modul_gen % 50) <= tol)

\* the rules after the thickness dispatch, first match wins; the label carries
\* the grooved qualifier
ExportGeometryType(boy, en, kanalli, tol) ==
    IF Near(boy, 720, tol) /\ Near(en, 330, tol)
    THEN (IF kanalli THEN "YAN (KANALLI)" ELSE "YAN")
    ELSE IF Near(boy, 720, tol) /\ Near(en, 580, tol)
    THEN (IF kanalli THEN "YAN (KANALLI)" ELSE "YAN")
    ELSE IF Near(boy, 2100, tol) /\ Near(en, 580, tol)
    THEN (IF kanalli THEN "YAN (KANALLI)" ELSE "YAN")
    ELSE IF (Near(boy, 720, tol) \/ Near(boy, 2100, tol))
            /\ 300 <= en /\ en <= 600 /\ kanalli
    THEN "YAN (KANALLI)"
    ELSE IF (Near(boy, 720, tol) \/ Near(boy, 2100, tol))
            /\ 300 <= en /\ en <= 600
            /\ (Near(en, 580, tol) \/ Near(en, 330, tol))
    THEN "YAN"
    ELSE IF Near(en, 579, tol) /\ NearMultipleOf50(boy + 36, tol)
    THEN (IF kanalli THEN "ALT-UST (KANALLI)" ELSE "ALT-UST")
    ELSE IF Near(en, 329, tol) /\ NearMultipleOf50(boy + 36, tol)
    THEN (IF kanalli THEN "ALT-UST (KANALLI)" ELSE "ALT-UST")
    ELSE IF \E depth \in {579, 329, 549, 529, 559} : Near(en, depth, tol)
    THEN (IF kanalli THEN "ALT-UST (KANALLI)" ELSE "ALT-UST")
    ELSE IF ~kanalli /\ Near(en, 530, tol)
    THEN "RAF"
    ELSE IF ~kanalli /\ Near(en, 290, tol)
    THEN "RAF (UST)"
    ELSE IF ~kanalli /\ (\E raf_en \in {530, 520, 510, 500, 480, 450} : Near(en, raf_en, tol))
    THEN "RAF"
    ELSE IF ~kanalli /\ (\E raf_en \in {290, 280, 270, 260} : Near(en, raf_en, tol))
    THEN "RAF (UST)"
    ELSE IF 80 <= en /\ en <= 140
    THEN "KAYIT/KUSAK"
    ELSE IF 80 <= boy /\ boy <= 140
    THEN "KAYIT/KUSAK"
    ELSE "DIGER"

\* the code returns (tip, kalinlik, boy, en); kanalli is kept beside them
determine_part_type(row, materials_db, learned_parts, tol) ==
    LET olcu1 == row.OLCU1
        olcu2 == row.OLCU2
        kanalli == check_kanalli(row.KANAL)
        malzeme == row.MALZEME
        db_kalinlik == DbKalinlik(materials_db, malzeme)
        boy == Max2(olcu1, olcu2)
        en == Min2(olcu1, olcu2)
        learned_key == LearnedKey(boy, en, malzeme)
    IN  IF learned_key \in DOMAIN learned_parts
        THEN Ret(learned_parts[learned_key], db_kalinlik, boy, en, kanalli)
        ELSE IF IsThin(db_kalinlik)
        THEN Ret("ARKALIK", db_kalinlik, boy, en, kanalli)
        ELSE IF db_kalinlik = CEKMECE_YAN_KALINLIK
        THEN Ret("CEKMECE YANI", db_kalinlik, boy, en, kanalli)
        ELSE Ret(ExportGeometryType(boy, en, kanalli, tol), db_kalinlik, boy, en, kanalli)

-----------------------------------------------------------------------------
(* pandas: groupby(...).agg({'ADET': 'sum'}).reset_index() and sort_values *)

\* The strings of the model in the order Python compares them (by code point
\* of the original labels: 'Ç' follows every ASCII letter)
SortedStrings ==
    << "", "A", "ALT-UST", "ALT-UST (K)", "ALT-UST (KANALLI)", "ARKALIK",
       "ARKALIK (K)", "ARKALIK (ICERDE)", "ARKALIK (ICERDE) (K)", "B", "DIGER",
       "DIGER (K)", "KAYIT/KUSAK", "KAYIT/KUSAK (K)", "RAF", "RAF (K)",
       "RAF (UST)", "RAF (UST) (K)", "SABIT", "SABIT (K)", "TEZGAH", "YAN",
       "YAN (K)", "YAN (KANALLI)", "CEKMECE YANI", "CEKMECE YANI (K)" >>

StrRank(s) == CHOOSE i \in 1..Len(SortedStrings) : SortedStrings[i] = s

\* the value of a column as pandas orders it
ColRank(col, v) ==
    CASE col = "MALZEME" -> StrRank(v)
      [] col = "TIP"     -> StrRank(v)
      [] col = "KANALLI" -> (IF v THEN 1 ELSE 0)
      [] OTHER           -> v

KeyOf(line, cols) == [i \in 1..Len(cols) |-> ColRank(cols[i], line[cols[i]])]

\* lexicographic order of two integer tuples of one length
LexLess(a, b) ==
    \E i \in 1..Len(a) : a[i] < b[i] /\ \A j \in 1..(i - 1) : a[j] = b[j]

\* the rows of seq ordered by the integer tuples keys[i]; equal keys keep
\* their order (sort_values on several columns is a stable lexsort)
StableSortByKeys(seq, keys) ==
    LET n == Len(seq)
        pos(i) == 1 + Cardinality({j \in 1..n :
                        LexLess(keys[j], keys[i]) \/ (keys[j] = keys[i] /\ j < i)})
    IN  [p \in 1..n |-> seq[CHOOSE i \in 1..n : pos(i) = p]]

\* df.sort_values(by=cols)
sort_values(seq, cols) ==
    StableSortByKeys(seq, [i \in 1..Len(seq) |-> KeyOf(seq[i], cols)])

\* df[mask]: the rows that satisfy the mask, in order
RECURSIVE FilterRows(_, _)
FilterRows(seq, keep) ==
    IF seq = << >> THEN << >>
    ELSE IF Head(seq) \in keep THEN << Head(seq) >> \o FilterRows(Tail(seq), keep)
    ELSE FilterRows(Tail(seq), keep)

RECURSIVE SumADET(_)
SumADET(seq) == IF seq = << >> THEN 0 ELSE Head(seq).ADET + SumADET(Tail(seq))

\* the rows of seq whose group columns equal those of key
GroupRows(seq, key, cols) ==
    FilterRows(seq, {r \in {seq[i] : i \in 1..Len(seq)} :
                        \A c \in {cols[k] : k \in 1..Len(cols)} : r[c] = key[c]})

\* an aggregate that counts the rows of a group instead of adding quantities
GroupADETCount(seq, key, cols) == Len(GroupRows(seq, key, cols))

\* an aggregate that keeps the quantity of the first row of a group
GroupADETFirst(seq, key, cols) == GroupRows(seq, key, cols)[1].ADET

\* agg({'ADET': 'sum'}) of one group
GroupADET(seq, key, cols) == SumADET(GroupRows(seq, key, cols))

\* a grouping that keeps the groups in the order of their first row
\* (groupby(..., sort=False))
groupby_sum_unsorted(seq, cols) ==
    LET colset == {cols[k] : k \in 1..Len(cols)}
        keyAt(i) == [c \in colset |-> seq[i][c]]
        firsts == {i \in 1..Len(seq) : \A j \in 1..(i - 1) : keyAt(j) # keyAt(i)}
        line(i) == [c \in colset \cup {"ADET"} |->
                        IF c = "ADET" THEN GroupADET(seq, keyAt(i), cols) ELSE seq[i][c]]
        pos(i) == 1 + Cardinality({j \in firsts : j < i})
    IN  [p \in 1..Cardinality(firsts) |-> line(CHOOSE i \in firsts : pos(i) = p)]

\* result_df.groupby(group_cols).agg({'ADET': 'sum'}).reset_index(): one line per
\* distinct key, ordered by the key columns
groupby_sum(seq, cols) ==
    LET colset == {cols[k] : k \in 1..Len(cols)}
        keys == {[c \in colset |-> seq[i][c]] : i \in 1..Len(seq)}
        line(key) == [c \in colset \cup {"ADET"} |->
                        IF c = "ADET" THEN GroupADET(seq, key, cols) ELSE key[c]]
        n == Cardinality(keys)
        pos(key) == 1 + Cardinality({k2 \in keys : LexLess(KeyOf(k2, cols), KeyOf(key, cols))})
    IN  [p \in 1..n |-> line(CHOOSE key \in keys : pos(key) = p)]

Column(seq, col) == {seq[i][col] : i \in 1..Len(seq)}

-----------------------------------------------------------------------------
(* ExcelAnalyzer.analyze_only *)

OnlyGroupCols == << "KALINLIK", "MALZEME", "BOY", "EN", "TIP", "KANALLI" >>

\* results.append({...}) for each row
OnlyResults(rows, materials_db, learned_parts, tol, cmods, cabs) ==
    [i \in 1..Len(rows) |->
        LET r == determine_part_type_with_module(rows[i], materials_db, learned_parts,
                                                 tol, cmods, cabs)
        IN  [KALINLIK |-> r.kalinlik, MALZEME |-> rows[i].MALZEME, BOY |-> r.boy,
             EN |-> r.en, TIP |-> r.tip, KANALLI |-> r.kanalli, ADET |-> rows[i].ADET]]

\* summary[summary['KALINLIK'] > ARKALIK_KALINLIK].sort_values(...)
OnlyBody(summary) ==
    sort_values(FilterRows(summary, {summary[i] : i \in {j \in 1..Len(summary) :
                            summary[j].KALINLIK > ARKALIK_KALINLIK}}),
                << "MALZEME", "KALINLIK", "TIP", "BOY" >>)

\* summary[summary['KALINLIK'] <= ARKALIK_KALINLIK].sort_values(...)
OnlyThin(summary) ==
    sort_values(FilterRows(summary, {summary[i] : i \in {j \in 1..Len(summary) :
                            summary[j].KALINLIK <= ARKALIK_KALINLIK}}),
                << "MALZEME", "TIP", "BOY" >>)

\* a failed call: {'success': False, 'error': ...}
Failure(op) ==
    [op |-> op, success |-> FALSE, results |-> << >>, summary |-> << >>,
     body |-> << >>, d16 |-> << >>, thin |-> << >>,
     total_parts |-> 0, material_count |-> 0, type_count |-> 0,
     profiles |-> << >>]

\* a call that returns {'success': True} and no tables
Done == [Failure("ok") EXCEPT !.success = TRUE]

\* an empty file leaves result_df without columns: groupby raises, the except
\* branch returns the failure
\* what analyze_only does once every row is classified: grouping, split, sort
\* and the returned dict
OnlyReturn(results, profiles) ==
    LET summary == groupby_sum(results, OnlyGroupCols)
    IN  IF results = << >> THEN Failure("analyze_only")
        ELSE [op |-> "analyze_only", success |-> TRUE,
              results |-> results, summary |-> summary,
              body |-> OnlyBody(summary), d16 |-> << >>, thin |-> OnlyThin(summary),
              total_parts |-> SumADET(summary),
              material_count |-> Cardinality(Column(results, "MALZEME")),
              type_count |-> Cardinality(Column(summary, "TIP")),
              \* not returned: the profile each row was classified against
              profiles |-> profiles]

analyze_only(rows, materials_db, learned_parts, saved, cmods, cabs) ==
    OnlyReturn(OnlyResults(rows, materials_db, learned_parts, Tolerans(saved), cmods, cabs),
               [i \in 1..Len(rows) |-> ResolveProfile(rows[i], cmods, cabs)])

-----------------------------------------------------------------------------
(* DatabaseManager *)

\* _init_database on a new file: no history row, the stats row (1, 0, 0)
EmptyDatabase ==
    [history |-> << >>, seq |-> 0, stats |-> [total_jobs |-> 0, total_parts |-> 0]]

\* the rows of a table whose id is in the list job_ids, in table order
RECURSIVE RowsIn(_, _)
RowsIn(history, ids) ==
    IF history = << >> THEN << >>
    ELSE IF Head(history).id \in ids THEN << Head(history) >> \o RowsIn(Tail(history), ids)
    ELSE RowsIn(Tail(history), ids)

\* SELECT SUM(total_parts): the sum over the rows, NULL (here 0) over no row
RECURSIVE SumTotalParts(_)
SumTotalParts(rows) ==
    IF rows = << >> THEN 0 ELSE Head(rows).total_parts + SumTotalParts(Tail(rows))

\* add_history: INSERT INTO history with the next id, then the stats row
add_history(d, job) ==
    [history |-> Append(d.history,
                        [id |-> d.seq + 1,
                         total_parts |-> job.stats.parts,
                         body_data |-> job.results.body,
                         thin_data |-> job.results.thin]),
     seq |-> d.seq + 1,
     stats |-> [total_jobs |-> d.stats.total_jobs + 1,
                total_parts |-> d.stats.total_parts + job.stats.parts]]

\* a delete_history that takes the length of the list for the deleted count
delete_history_by_length(d, job_ids) ==
    LET ids == {job_ids[k] : k \in 1..Len(job_ids)}
        parts_to_remove == SumTotalParts(RowsIn(d.history, ids))
    IN  [db |-> [history |-> RowsIn(d.history, {r.id : r \in
                                {d.history[k] : k \in 1..Len(d.history)}} \ ids),
                 seq |-> d.seq,
                 stats |-> [total_jobs |-> d.stats.total_jobs - Len(job_ids),
                            total_parts |-> d.stats.total_parts - parts_to_remove]],
         deleted |-> Len(job_ids)]

\* delete_history: SUM over the rows WHERE id IN (job_ids), DELETE of the same
\* rows, cursor.rowcount, then the stats row
delete_history(d, job_ids) ==
    LET ids == {job_ids[k] : k \in 1..Len(job_ids)}
        hit == RowsIn(d.history, ids)
        parts_to_remove == SumTotalParts(hit)
        deleted_count == Len(hit)
    IN  [db |-> [history |-> RowsIn(d.history, {r.id : r \in
                                {d.history[k] : k \in 1..Len(d.history)}} \ ids),
                 seq |-> d.seq,
                 stats |-> [total_jobs |-> d.stats.total_jobs - deleted_count,
                            total_parts |-> d.stats.total_parts - parts_to_remove]],
         deleted |-> deleted_count]

\* get_history_by_ids: the jobs of the rows WHERE id IN (job_ids)
get_history_by_ids(d, job_ids) ==
    LET rows == RowsIn(d.history, {job_ids[k] : k \in 1..Len(job_ids)})
    IN  [k \in 1..Len(rows) |->
            [id |-> rows[k].id,
             stats |-> [parts |-> rows[k].total_parts],
             results |-> [body |-> rows[k].body_data, thin |-> rows[k].thin_data]]]

-----------------------------------------------------------------------------
(* ExcelAnalyzer.analyze_and_export *)

ExportGroupCols == << "KALINLIK", "MALZEME", "BOY", "EN", "TIP" >>

part_type_order ==
    << "YAN", "YAN (K)", "ALT-UST", "ALT-UST (K)", "SABIT", "SABIT (K)",
       "RAF", "RAF (K)", "RAF (UST)", "RAF (UST) (K)",
       "KAYIT/KUSAK", "KAYIT/KUSAK (K)", "CEKMECE YANI", "CEKMECE YANI (K)",
       "ARKALIK", "ARKALIK (K)", "ARKALIK (ICERDE)", "ARKALIK (ICERDE) (K)",
       "DIGER", "DIGER (K)" >>

\* part_type_order.index(x) if x in part_type_order else 999
SortOrder(x) ==
    IF \E i \in 1..Len(part_type_order) : part_type_order[i] = x
    THEN (CHOOSE i \in 1..Len(part_type_order) : part_type_order[i] = x) - 1
    ELSE UnknownOrder

\* sort_by_part_type: sort_values(by=['_sort_order', 'MALZEME', 'BOY', 'EN'])
sort_by_part_type(seq) ==
    StableSortByKeys(seq,
        [i \in 1..Len(seq) |->
            << SortOrder(seq[i].TIP) >> \o KeyOf(seq[i], << "MALZEME", "BOY", "EN" >>)])

\* the columns of results that the grouping reads (POZ, MODÜL and MODÜL TİPİ
\* are dropped by the groupby)
ExportResults(rows, materials_db, learned_parts, tol) ==
    [i \in 1..Len(rows) |->
        LET r == determine_part_type(rows[i], materials_db, learned_parts, tol)
        IN  [KALINLIK |-> r.kalinlik, MALZEME |-> rows[i].MALZEME, BOY |-> r.boy,
             EN |-> r.en, TIP |-> r.tip, ADET |-> rows[i].ADET]]

\* summary[summary['KALINLIK'] == 18]
Table18(summary) ==
    FilterRows(summary, {summary[i] : i \in {j \in 1..Len(summary) :
                            summary[j].KALINLIK = 18}})

\* summary[summary['KALINLIK'] == 16]
Table16(summary) ==
    FilterRows(summary, {summary[i] : i \in {j \in 1..Len(summary) :
                            summary[j].KALINLIK = 16}})

\* summary[summary['KALINLIK'] <= 8]
Table8(summary) ==
    FilterRows(summary, {summary[i] : i \in {j \in 1..Len(summary) :
                            summary[j].KALINLIK <= 8}})

analyze_and_export(rows, materials_db, learned_parts, saved) ==
    LET results == ExportResults(rows, materials_db, learned_parts, Tolerans(saved))
        summary == groupby_sum(results, ExportGroupCols)
    IN  IF rows = << >> THEN Failure("analyze_and_export")
        ELSE [op |-> "analyze_and_export", success |-> TRUE,
              results |-> results, summary |-> summary,
              body |-> sort_by_part_type(Table18(summary)),
              d16 |-> sort_by_part_type(Table16(summary)),
              thin |-> sort_by_part_type(Table8(summary)),
              total_parts |-> SumADET(summary),
              material_count |-> Cardinality(Column(results, "MALZEME")),
              type_count |-> Cardinality(Column(summary, "TIP")),
              profiles |-> << >>]

-----------------------------------------------------------------------------
(* merge_jobs *)

\* all_body.extend(results.get('body', [])) over the jobs, in order
RECURSIVE AllLines(_, _)
AllLines(jobs, table) ==
    IF jobs = << >> THEN << >>
    ELSE Head(jobs).results[table] \o AllLines(Tail(jobs), table)

\* groupby(group_cols).agg({'ADET': 'sum'}) then sort_values of one merged
\* table; an empty table is left as it is
MergedTable(lines) ==
    IF lines = << >> THEN << >>
    ELSE sort_values(groupby_sum(lines, ExportGroupCols), << "MALZEME", "TIP", "BOY" >>)

\* ExcelAnalyzer.merge_jobs
merge_jobs(jobs) ==
    LET body_df == MergedTable(AllLines(jobs, "body"))
        thin_df == MergedTable(AllLines(jobs, "thin"))
    IN  IF body_df = << >> /\ thin_df = << >> THEN Failure("merge_jobs")
        ELSE [Failure("merge_jobs") EXCEPT
                !.success = TRUE, !.body = body_df, !.thin = thin_df,
                !.total_parts = SumADET(body_df) + SumADET(thin_df)]

\* Api.merge_jobs: the jobs of the ids, the save dialog, the analyzer's merge
api_merge_jobs(d, job_ids, result_dialog) ==
    LET jobs == get_history_by_ids(d, job_ids)
    IN  IF jobs = << >> \/ ~result_dialog THEN Failure("merge_jobs")
        ELSE merge_jobs(jobs)

-----------------------------------------------------------------------------
(* UserManager.  A session token is a positive number; None, a missing     *)
(* 'session_token' key and the empty string are 0.                         *)

\* _hash_password: the stored form of a password
Hash(password) == << "hash", password >>

\* _verify_password
VerifyPassword(password, hashed) == Hash(password) = hashed

\* _create_user: the record replaces any record of the name; it has no
\* 'session_token' key
CreateUser(users, username, password) ==
    [u \in (DOMAIN users) \cup {username} |->
        IF u = username THEN [password |-> Hash(password), session_token |-> 0]
        ELSE users[u]]

\* the result of a UserManager call: the call, its arguments, its outcome
UserResult(op, username, token, success) ==
    [op |-> op, username |-> username, token |-> token, success |-> success]

\* UserManager() on a data directory without users.json: _ensure_admin
\* creates 'admin'; no core_session.json
UserManagerInit ==
    [users |-> CreateUser(<< >>, "admin", "admin123"),
     issued |-> 0,
     session_file |-> << >>,
     calls |-> << >>,
     result |-> UserResult("init", "admin", 0, TRUE)]

\* generate_session_token: secrets.token_urlsafe(32) gives a token never
\* given before; it is stored if the user exists
generate_session_token(users, username, token) ==
    IF username \in DOMAIN users
    THEN [users EXCEPT ![username].session_token = token]
    ELSE users

\* verify_session_token
verify_session_token(users, username, token) ==
    IF username \notin DOMAIN users THEN FALSE
    ELSE LET stored_token == users[username].session_token
         IN  ~(stored_token = 0 \/ stored_token # token)

\* a clear_session_token that leaves users.json as it is
clear_session_token_keeps(users, username) == users

\* clear_session_token: users[username]['session_token'] = None
clear_session_token(users, username) ==
    IF username \in DOMAIN users
    THEN [users EXCEPT ![username].session_token = 0]
    ELSE users

\* delete_user: 'admin' stays
delete_user(users, username) ==
    IF username = "admin" \/ username \notin DOMAIN users THEN users
    ELSE [u \in (DOMAIN users) \ {username} |-> users[u]]

-----------------------------------------------------------------------------
(* The inputs of the model *)

MaterialCodes == {"A", "B"}
Thicknesses == {8, 16, 25}
Tolerances == {0, 15}
Dims == {100, 290, 530, 563, 580, 720}
KanalValues == {"", "EVET"}
NoModule == << >>
AltDolap60 == << "Alt", "dolap", "60", "cm" >>
UstDolap60 == << "UST", "dolap", "60", "cm" >>
ModuleNames == {NoModule, AltDolap60, UstDolap60}

Row(o1, o2, m, k, mod, poz, adet) ==
    [OLCU1 |-> o1, OLCU2 |-> o2, MALZEME |-> m, KANAL |-> k, MODUL |-> mod,
     POZ |-> poz, ADET |-> adet]

\* one-row files over every pair of dimensions
ClassifyFiles ==
    {<< Row(o1, o2, "A", k, mod, "", 1) >> :
        o1 \in Dims, o2 \in Dims, k \in KanalValues, mod \in ModuleNames}

\* the rows of the files that are aggregated
AggRows ==
    {Row(d[1], d[2], q[1], q[3], NoModule, "", q[2]) :
        d \in {<< 580, 720 >>, << 720, 580 >>, << 580, 580 >>},
        q \in {<< "A", 1, "" >>, << "A", 1, "EVET" >>, << "B", 2, "" >>}}

RECURSIVE SeqsUpTo(_, _)
SeqsUpTo(S, n) ==
    IF n = 0 THEN {<< >>}
    ELSE LET shorter == SeqsUpTo(S, n - 1)
         IN  shorter \cup {Append(q, x) : q \in shorter, x \in S}

AggFiles == SeqsUpTo(AggRows, MaxRows)

\* the rows of the files analysed under per-position overrides
ApiFiles ==
    {<< Row(o1, o2, "A", "", mod, poz, 1) >> :
        o1 \in {564, 764, 800}, o2 \in {560, 579, 580}, mod \in {NoModule, AltDolap60},
        poz \in {"", "1", "2"}}

\* the settings the user saves
SettingChoices ==
    {[govde_kalinlik |-> 25], [arkalik_max_kalinlik |-> 16],
     [cekmece_yan_kalinlik |-> 25], [yan_dusumu |-> 20], [tolerans |-> 15]}

\* the rows of the files classified under saved settings
SettingFiles ==
    {<< Row(d[1], d[2], m, "", mod, "", 1) >> :
        d \in {<< 720, 580 >>, << 564, 579 >>, << 579, 580 >>, << 100, 40 >>},
        m \in MaterialCodes, mod \in {NoModule, AltDolap60}}

AltDolap80 == << "Alt", "dolap", "80", "cm" >>

\* the dimensions that meet the rules of the two classifiers, one by one and
\* two at a time
RuleDims ==
    {<< 702, 582 >>, << 683, 563 >>, << 692, 572 >>, << 782, 582 >>,
     << 720, 580 >>, << 580, 720 >>, << 800, 560 >>, << 720, 330 >>,
     << 764, 579 >>, << 564, 329 >>, << 570, 568 >>, << 564, 572 >>,
     << 564, 557 >>, << 564, 543 >>,
     << 563, 530 >>, << 563, 290 >>,
     << 100, 40 >>, << 600, 100 >>, << 400, 200 >>}

\* one-row files for the rule chains
RuleFiles ==
    {<< Row(d[1], d[2], "A", k, mod, "", 1) >> :
        d \in RuleDims, k \in KanalValues,
        mod \in {NoModule, AltDolap60, AltDolap80, UstDolap60}}

\* the parts the user teaches
LearnableParts ==
    {[boy |-> b[1], en |-> b[2], malzeme |-> "A", partType |-> t] :
        b \in {<< 563, 530 >>, << 720, 580 >>}, t \in {"RAF", "TEZGAH"}}

PozValues == {"1"}
OverrideValues ==
    {[genislik |-> 800], [yukseklik |-> 800, derinlik |-> 560],
     [genislik |-> 800, yukseklik |-> 800, derinlik |-> 560]}
CabinetTypes == {"alt", "ust", "orta"}
CabinetValues == {[yukseklik |-> 800], [derinlik |-> 560]}
\* a lower-cabinet profile other than the default one
TallShallow == [yukseklik |-> 800, derinlik |-> 560]

DefaultCabinetSettings ==
    [t \in {"alt", "ust", "boy"} |->
        CASE t = "alt" -> [yukseklik |-> 720, derinlik |-> 580]
          [] t = "ust" -> [yukseklik |-> 720, derinlik |-> 330]
          [] t = "boy" -> [yukseklik |-> 2100, derinlik |-> 580]]

-----------------------------------------------------------------------------
(* The state after Api() *)

\* ExcelAnalyzer.__init__: self.custom_modules = custom_modules or {} keeps the
\* dict it is given only when that dict is truthy (non-empty)
KeepsPassedDict(d) == DOMAIN d # {}

\* no analyze_only call is running
Idle ==
    [phase |-> "idle", settings |-> EmptyDict, materials_db |-> EmptyDict,
     learned_parts |-> EmptyDict, results |-> << >>, profiles |-> << >>,
     start_modules |-> EmptyDict, start_cabinet |-> DefaultCabinetSettings]

\* df is the file the run works on: the disk holds it before Api() is built
InitWith(files) ==
    /\ materials = EmptyDict
    /\ learned = EmptyDict
    /\ settings = EmptyDict
    /\ custom_modules = EmptyDict
    /\ custom_depths = EmptyDict
    /\ an_custom_modules = EmptyDict
    /\ an_custom_shared = KeepsPassedDict(EmptyDict)
    /\ cabinet_settings = DefaultCabinetSettings
    /\ an_cabinet_settings = DefaultCabinetSettings
    /\ an_cabinet_shared = KeepsPassedDict(DefaultCabinetSettings)
    /\ df \in files
    /\ last = Done
    /\ pass = Idle
    /\ db = EmptyDatabase
    /\ um = UserManagerInit

\* self.custom_modules of the analyzer
AnalyzerCustomModules ==
    IF an_custom_shared THEN custom_modules ELSE an_custom_modules

\* self.cabinet_settings of the analyzer
AnalyzerCabinetSettings ==
    IF an_cabinet_shared THEN cabinet_settings ELSE an_cabinet_settings

JsonVars == << materials, learned, settings >>
StoreVars == << db, um >>
ApiVars == << custom_modules, custom_depths, an_custom_modules, an_custom_shared,
              cabinet_settings, an_cabinet_settings, an_cabinet_shared >>

-----------------------------------------------------------------------------
(* Api calls *)

\* Api.save_material
SaveMaterial ==
    \E code \in MaterialCodes, thickness \in Thicknesses :
        /\ code \in DOMAIN materials \/ Cardinality(DOMAIN materials) < MaxMaterials
        /\ materials' = save_material_db(materials, code, thickness)
        /\ last' = Done
        /\ UNCHANGED << learned, settings, ApiVars, df, pass, StoreVars >>

\* Api.save_learned_parts
SaveLearnedParts ==
    \E p \in LearnableParts :
        /\ \/ StoreKey(p.boy, p.en, p.malzeme) \in DOMAIN learned
           \/ Cardinality(DOMAIN learned) < MaxLearned
        /\ learned' = save_learned_parts_bulk(learned, << p >>)
        /\ last' = Done
        /\ UNCHANGED << materials, settings, ApiVars, df, pass, StoreVars >>

\* Api.save_settings
SaveSettings ==
    \E t \in Tolerances :
        /\ settings' = [tolerans |-> t]
        /\ last' = Done
        /\ UNCHANGED << materials, learned, ApiVars, df, pass, StoreVars >>

\* Api.save_settings with one of the classification constants changed
SaveClassificationSettings ==
    \E s \in SettingChoices :
        /\ settings' = s
        /\ last' = Done
        /\ UNCHANGED << materials, learned, ApiVars, df, pass, StoreVars >>

\* Api.set_custom_module
SetCustomModule ==
    \E poz \in PozValues, values \in OverrideValues :
        /\ custom_modules' = [q \in (DOMAIN custom_modules) \cup {poz} |->
                                IF q = poz THEN values ELSE custom_modules[q]]
        /\ custom_depths' =
                IF "derinlik" \in DOMAIN values
                THEN [q \in (DOMAIN custom_depths) \cup {poz} |->
                        IF q = poz THEN values["derinlik"] ELSE custom_depths[q]]
                ELSE custom_depths
        /\ last' = Done
        /\ UNCHANGED << JsonVars, an_custom_modules, an_custom_shared,
                        cabinet_settings, an_cabinet_settings, an_cabinet_shared, df, pass, StoreVars >>

\* Api.clear_custom_depths: both fields are bound to new dicts; an analyzer that
\* shared the old dict keeps it
ClearCustomDepths ==
    /\ custom_depths' = EmptyDict
    /\ custom_modules' = EmptyDict
    /\ an_custom_modules' = AnalyzerCustomModules
    /\ an_custom_shared' = FALSE
    /\ last' = Done
    /\ UNCHANGED << JsonVars, cabinet_settings, an_cabinet_settings, an_cabinet_shared, df, pass, StoreVars >>

\* a call that writes the values into every family
SetCabinetSettingsEveryFamily(types, choices) ==
    \E cabinet_type \in types, values \in choices :
        /\ cabinet_settings' =
                [t \in DOMAIN cabinet_settings |->
                    [f \in DOMAIN cabinet_settings[t] |->
                        IF f \in DOMAIN values THEN values[f] ELSE cabinet_settings[t][f]]]
        /\ an_cabinet_shared' = TRUE
        /\ an_cabinet_settings' = cabinet_settings'
        /\ last' = Done
        /\ UNCHANGED << JsonVars, custom_modules, custom_depths,
                        an_custom_modules, an_custom_shared, df, pass, StoreVars >>

\* Api.set_cabinet_settings
SetCabinetSettingsOf(types, choices) ==
    \E cabinet_type \in types, values \in choices :
        IF cabinet_type \notin {"alt", "ust", "boy"}
        THEN /\ last' = Failure("set_cabinet_settings")
             /\ UNCHANGED << JsonVars, ApiVars, df, pass, StoreVars >>
        ELSE /\ cabinet_settings' =
                    [cabinet_settings EXCEPT ![cabinet_type] =
                        [f \in DOMAIN @ |-> IF f \in DOMAIN values THEN values[f] ELSE @[f]]]
             /\ an_cabinet_shared' = TRUE
             /\ an_cabinet_settings' = cabinet_settings'
             /\ last' = Done
             /\ UNCHANGED << JsonVars, custom_modules, custom_depths,
                             an_custom_modules, an_custom_shared, df, pass, StoreVars >>

SetCabinetSettings == SetCabinetSettingsOf(CabinetTypes, CabinetValues)

\* Api.set_cabinet_settings('alt', {'yukseklik': 800, 'derinlik': 560})
SetLowerProfile == SetCabinetSettingsOf({"alt"}, {TallShallow})

\* Api.reset_cabinet_settings
ResetCabinetSettings ==
    /\ cabinet_settings' = DefaultCabinetSettings
    /\ an_cabinet_shared' = TRUE
    /\ an_cabinet_settings' = DefaultCabinetSettings
    /\ last' = Done
    /\ UNCHANGED << JsonVars, custom_modules, custom_depths,
                    an_custom_modules, an_custom_shared, df, pass, StoreVars >>

\* Api.analyze_file -> ExcelAnalyzer.analyze_only
AnalyzeFile ==
    /\ last' = analyze_only(df, materials, learned, settings,
                            AnalyzerCustomModules, AnalyzerCabinetSettings)
    /\ UNCHANGED << JsonVars, ApiVars, df, pass, StoreVars >>

\* ExcelAnalyzer.analyze_and_export on the selected file and the result it
\* returns; the call together with its save dialog and the job it adds to the
\* history is ApiAnalyzeAndExport
AnalyzeAndExport ==
    /\ last' = analyze_and_export(df, materials, learned, settings)
    /\ UNCHANGED << JsonVars, ApiVars, df, pass, StoreVars >>

-----------------------------------------------------------------------------
(* The dimension cells of the spreadsheet.  A cell is the sequence of its   *)
(* characters; an empty cell is << >>.                                      *)

Digits == {"0", "1", "2", "3", "4", "5", "6", "7", "8", "9"}

DigitOf(ch) ==
    CASE ch = "0" -> 0 [] ch = "1" -> 1 [] ch = "2" -> 2 [] ch = "3" -> 3
      [] ch = "4" -> 4 [] ch = "5" -> 5 [] ch = "6" -> 6 [] ch = "7" -> 7
      [] ch = "8" -> 8 [] ch = "9" -> 9

\* the cell without its sign
Unsigned(cell) == IF Len(cell) > 0 /\ cell[1] = "-" THEN Tail(cell) ELSE cell

\* the characters before the first decimal point
IntegerPart(cell) ==
    LET u == Unsigned(cell)
        dots == {i \in 1..Len(u) : u[i] = "."}
    IN  IF dots = {} THEN u
        ELSE SubSeq(u, 1, (CHOOSE i \in dots : \A j \in dots : i <= j) - 1)

\* the characters after the first decimal point
FractionPart(cell) ==
    LET u == Unsigned(cell)
        dots == {i \in 1..Len(u) : u[i] = "."}
    IN  IF dots = {} THEN << >>
        ELSE SubSeq(u, (CHOOSE i \in dots : \A j \in dots : i <= j) + 1, Len(u))

\* pd.to_numeric(..., errors='coerce') gives a number, not NaN
IsNumeric(cell) ==
    /\ Len(IntegerPart(cell)) > 0
    /\ \A i \in 1..Len(IntegerPart(cell)) : IntegerPart(cell)[i] \in Digits
    /\ \A i \in 1..Len(FractionPart(cell)) : FractionPart(cell)[i] \in Digits

RECURSIVE DecimalValue(_)
DecimalValue(ds) ==
    IF ds = << >> THEN 0
    ELSE 10 * DecimalValue(SubSeq(ds, 1, Len(ds) - 1)) + DigitOf(ds[Len(ds)])

\* a coercion that fills NaN with 1
to_numeric_fill_one(cell) ==
    IF ~IsNumeric(cell) THEN 1
    ELSE IF Len(cell) > 0 /\ cell[1] = "-" THEN 0 - DecimalValue(IntegerPart(cell))
    ELSE DecimalValue(IntegerPart(cell))

\* pd.to_numeric(cell, errors='coerce').fillna(0).astype(int): NaN becomes 0 and
\* a number loses its fraction
to_numeric_int(cell) ==
    IF ~IsNumeric(cell) THEN 0
    ELSE IF Len(cell) > 0 /\ cell[1] = "-" THEN 0 - DecimalValue(IntegerPart(cell))
    ELSE DecimalValue(IntegerPart(cell))

\* df['OLCU1'] = ..., df['OLCU2'] = ...: the standard columns beside the cells
StandardColumns(rows) ==
    [i \in 1..Len(rows) |->
        Row(to_numeric_int(rows[i].CELL1), to_numeric_int(rows[i].CELL2),
            rows[i].MALZEME, rows[i].KANAL, rows[i].MODUL, rows[i].POZ, rows[i].ADET)
        @@ [CELL1 |-> rows[i].CELL1, CELL2 |-> rows[i].CELL2]]

RawCells ==
    {<< >>, << "a", "b", "c" >>, << "5", "8", "0" >>, << "7", "2", "0" >>,
     << "-", "5" >>, << "5", "6", "3", ".", "7" >>}

RawFiles ==
    {<< [CELL1 |-> c1, CELL2 |-> c2, MALZEME |-> m, KANAL |-> "", MODUL |-> mod,
         POZ |-> "", ADET |-> 1] >> :
        c1 \in RawCells, c2 \in RawCells, m \in MaterialCodes,
        mod \in {NoModule, AltDolap60}}

\* Api.analyze_file from the reading of the cells on
ReadAndAnalyzeFile ==
    /\ df' = StandardColumns(df)
    /\ last' = analyze_only(df', materials, learned, settings,
                            AnalyzerCustomModules, AnalyzerCabinetSettings)
    /\ UNCHANGED << JsonVars, ApiVars, pass, StoreVars >>

\* ExcelAnalyzer.analyze_and_export from the reading of the cells on
ReadAndAnalyzeAndExport ==
    /\ df' = StandardColumns(df)
    /\ last' = analyze_and_export(df', materials, learned, settings)
    /\ UNCHANGED << JsonVars, ApiVars, pass, StoreVars >>

-----------------------------------------------------------------------------
(* The history of jobs *)

\* the jobs handed to DatabaseManager.add_history directly
DirectJobs ==
    {[stats |-> [parts |-> n], results |-> [body |-> << >>, thin |-> << >>]] :
        n \in {0, 3, 5}}

\* the lists of ids handed to delete_history and merge_jobs: ids of rows, ids
\* of no row, repeated ids, the empty list
IdLists == SeqsUpTo(1..(MaxJobs + 1), 2)

\* DatabaseManager.add_history
AddHistory ==
    \E job \in DirectJobs :
        /\ db.seq < MaxJobs
        /\ db' = add_history(db, job)
        /\ last' = Done
        /\ UNCHANGED << JsonVars, ApiVars, df, pass, um >>

\* Api.delete_history -> DatabaseManager.delete_history
DeleteHistory ==
    \E job_ids \in IdLists :
        /\ db' = delete_history(db, job_ids).db
        /\ last' = [Done EXCEPT !.op = "delete_history",
                                !.total_parts = delete_history(db, job_ids).deleted]
        /\ UNCHANGED << JsonVars, ApiVars, df, pass, um >>

\* the files exported into the history: two materials, two quantities
JobFiles ==
    {<< Row(720, 580, "A", "", NoModule, "", 2) >>,
     << Row(720, 580, "A", "", NoModule, "", 2), Row(400, 300, "B", "", NoModule, "", 1) >>}

\* the job record Api.analyze_and_export builds from a successful result
JobOf(result) ==
    [stats |-> [parts |-> result.total_parts],
     results |-> [body |-> result.body, thin |-> result.thin]]

\* Api.analyze_and_export as a whole: the save dialog, the analyzer call, and
\* on success the job added to the history
ApiAnalyzeAndExport ==
    \E result_dialog \in BOOLEAN :
        LET result == analyze_and_export(df, materials, learned, settings)
        IN  /\ db.seq < MaxExports
            /\ last' = IF result_dialog THEN result ELSE Failure("analyze_and_export")
            /\ db' = IF result_dialog /\ result.success
                      THEN add_history(db, JobOf(result)) ELSE db
            /\ UNCHANGED << JsonVars, ApiVars, df, pass, um >>

\* Api.merge_jobs
MergeJobs ==
    \E job_ids \in IdLists, result_dialog \in BOOLEAN :
        /\ last' = api_merge_jobs(db, job_ids, result_dialog)
        /\ UNCHANGED << JsonVars, ApiVars, df, pass, StoreVars >>

-----------------------------------------------------------------------------
(* Users and sessions.  um.calls keeps the remember-me logins and the       *)
(* logouts served, in order; it is what the calls were, not what            *)
(* users.json holds.                                                        *)

UserNames == {"admin", "usta"}
Passwords == {"admin123", "1234"}
Tokens == 0..MaxCalls

\* Api.login -> UserManager.login, then save_session_file
Login ==
    \E username \in UserNames, password \in Passwords, remember_me \in BOOLEAN :
        LET ok == /\ username \in DOMAIN um.users
                  /\ VerifyPassword(password, um.users[username].password)
            token == um.issued + 1
        IN  /\ (ok /\ remember_me) => Len(um.calls) < MaxCalls
            /\ um' = IF ok /\ remember_me
                      THEN [users |-> generate_session_token(um.users, username, token),
                            issued |-> token,
                            session_file |-> << username, token >>,
                            calls |-> Append(um.calls, << "login", username, token >>),
                            result |-> UserResult("login", username, token, TRUE)]
                      ELSE [um EXCEPT !.result = UserResult("login", username, 0, ok)]
            /\ UNCHANGED << JsonVars, ApiVars, df, last, pass, db >>

\* Api.logout_user -> UserManager.clear_session_token, which also removes
\* core_session.json when the user exists
LogoutUser ==
    \E username \in UserNames :
        /\ Len(um.calls) < MaxCalls
        /\ um' = [um EXCEPT
                    !.users = clear_session_token(um.users, username),
                    !.session_file = IF username \in DOMAIN um.users
                                     THEN << >> ELSE um.session_file,
                    !.calls = Append(um.calls, << "logout", username, 0 >>),
                    !.result = UserResult("logout_user", username, 0, TRUE)]
        /\ UNCHANGED << JsonVars, ApiVars, df, last, pass, db >>

\* Api.login_with_token -> UserManager.verify_session_token
LoginWithToken ==
    \E username \in UserNames, token \in Tokens :
        /\ um' = [um EXCEPT !.result =
                    UserResult("login_with_token", username, token,
                               verify_session_token(um.users, username, token))]
        /\ UNCHANGED << JsonVars, ApiVars, df, last, pass, db >>

\* Api.check_saved_session -> UserManager.load_session_file
CheckSavedSession ==
    /\ um' = [um EXCEPT !.result =
                IF um.session_file = << >>
                THEN UserResult("check_saved_session", "admin", 0, FALSE)
                ELSE UserResult("check_saved_session", um.session_file[1],
                                um.session_file[2],
                                verify_session_token(um.users, um.session_file[1],
                                                     um.session_file[2]))]
    /\ UNCHANGED << JsonVars, ApiVars, df, last, pass, db >>

\* Api.add_user -> UserManager.add_user
AddUser ==
    \E username \in UserNames, password \in Passwords :
        /\ um' = IF username \in DOMAIN um.users
                  THEN [um EXCEPT !.result = UserResult("add_user", username, 0, FALSE)]
                  ELSE [um EXCEPT !.users = CreateUser(um.users, username, password),
                                  !.result = UserResult("add_user", username, 0, TRUE)]
        /\ UNCHANGED << JsonVars, ApiVars, df, last, pass, db >>

\* Api.delete_user -> UserManager.delete_user
DeleteUser ==
    \E username \in UserNames :
        /\ um' = [um EXCEPT
                    !.users = delete_user(um.users, username),
                    !.result = UserResult("delete_user", username, 0,
                                          username # "admin" /\ username \in DOMAIN um.users)]
        /\ UNCHANGED << JsonVars, ApiVars, df, last, pass, db >>

-----------------------------------------------------------------------------
(* Api.analyze_file on its own thread, one row at a time, while other Api   *)
(* calls are served on theirs.  A row is classified in one step; the other  *)
(* calls are steps between two rows.                                        *)

\* analyze_only up to the row loop: settings, materials_db and learned_parts
\* are read once into locals.  start_modules and start_cabinet are not locals
\* of the code: they record what the analyzer's dicts held at this moment.
StartPass ==
    /\ pass.phase # "running"
    /\ df # << >>
    /\ pass' = [phase |-> "running", settings |-> settings, materials_db |-> materials,
                learned_parts |-> learned, results |-> << >>, profiles |-> << >>,
                start_modules |-> AnalyzerCustomModules,
                start_cabinet |-> AnalyzerCabinetSettings]
    /\ UNCHANGED << JsonVars, ApiVars, df, last, StoreVars >>

\* one iteration of 'for idx, row in df.iterrows()': determine_part_type_with_module
\* reads the locals, and self.custom_modules / self.cabinet_settings as they are now
ClassifyRow ==
    /\ pass.phase = "running"
    /\ Len(pass.results) < Len(df)
    /\ LET row == df[Len(pass.results) + 1]
           r == determine_part_type_with_module(row, pass.materials_db, pass.learned_parts,
                                                Tolerans(pass.settings),
                                                AnalyzerCustomModules, AnalyzerCabinetSettings)
       IN  pass' = [pass EXCEPT
                !.results = Append(@, [KALINLIK |-> r.kalinlik, MALZEME |-> row.MALZEME,
                                       BOY |-> r.boy, EN |-> r.en, TIP |-> r.tip,
                                       KANALLI |-> r.kanalli, ADET |-> row.ADET]),
                !.profiles = Append(@, ResolveProfile(row, AnalyzerCustomModules,
                                                      AnalyzerCabinetSettings))]
    /\ UNCHANGED << JsonVars, ApiVars, df, last, StoreVars >>

\* after the loop: grouping, split, sort, return
FinishPass ==
    /\ pass.phase = "running"
    /\ Len(pass.results) = Len(df)
    /\ last' = OnlyReturn(pass.results, pass.profiles)
    /\ pass' = [pass EXCEPT !.phase = "done"]
    /\ UNCHANGED << JsonVars, ApiVars, df, StoreVars >>

-----------------------------------------------------------------------------
(* Specifications *)

\* classification of single rows under every registry content
Next ==
    \/ SaveMaterial
    \/ SaveLearnedParts
    \/ SaveSettings
    \/ SetLowerProfile
    \/ AnalyzeFile
    \/ AnalyzeAndExport

Init == InitWith(ClassifyFiles)

Spec == Init /\ [][Next]_vars

\* aggregation of files of several rows
NextAgg ==
    \/ SaveMaterial
    \/ AnalyzeFile
    \/ AnalyzeAndExport

InitAgg == InitWith(AggFiles)

SpecAgg == InitAgg /\ [][NextAgg]_vars

\* per-position overrides and family profiles set through the Api
NextApi ==
    \/ SetCustomModule
    \/ ClearCustomDepths
    \/ SetCabinetSettings
    \/ ResetCabinetSettings
    \/ AnalyzeFile

InitApi == InitWith(ApiFiles)

SpecApi == InitApi /\ [][NextApi]_vars

\* the rows of the files analysed while other calls are served
ConcRows ==
    {Row(720, 580, "A", "", NoModule, "", 1), Row(800, 560, "B", "", AltDolap60, "", 1)}

ConcFiles == {<< r1, r2 >> : r1 \in ConcRows, r2 \in ConcRows}

\* a pass row by row, interleaved with calls that change the registries
NextConc ==
    \/ StartPass
    \/ ClassifyRow
    \/ FinishPass
    \/ SetLowerProfile
    \/ ResetCabinetSettings
    \/ SaveMaterial

InitConc == InitWith(ConcFiles)

SpecConc == InitConc /\ [][NextConc]_vars

\* files whose dimension cells are read as they were typed
NextRaw ==
    \/ SaveMaterial
    \/ SetLowerProfile
    \/ ReadAndAnalyzeFile
    \/ ReadAndAnalyzeAndExport

InitRaw == InitWith(RawFiles)

SpecRaw == InitRaw /\ [][NextRaw]_vars

\* classification under saved settings
NextSet ==
    \/ SaveMaterial
    \/ SaveClassificationSettings
    \/ AnalyzeFile
    \/ AnalyzeAndExport

InitSet == InitWith(SettingFiles)

SpecSet == InitSet /\ [][NextSet]_vars

\* the rule chains of the two classifiers
NextRules ==
    \/ SaveMaterial
    \/ SaveSettings
    \/ SetLowerProfile
    \/ AnalyzeFile
    \/ AnalyzeAndExport

InitRules == InitWith(RuleFiles)

SpecRules == InitRules /\ [][NextRules]_vars

\* files analysed into the history, their dialogs, the merge of kept jobs
NextJobs ==
    \/ SaveMaterial
    \/ ApiAnalyzeAndExport
    \/ DeleteHistory
    \/ MergeJobs

InitJobs == InitWith(JobFiles)

SpecJobs == InitJobs /\ [][NextJobs]_vars

\* users, logins, logouts and saved sessions
NextUsers ==
    \/ Login
    \/ LogoutUser
    \/ LoginWithToken
    \/ CheckSavedSession
    \/ AddUser
    \/ DeleteUser

InitUsers == InitWith({<< >>})

SpecUsers == InitUsers /\ [][NextUsers]_vars

\* the history and the counters of the stats row
NextDb ==
    \/ AddHistory
    \/ DeleteHistory

InitDb == InitWith({<< >>})

SpecDb == InitDb /\ [][NextDb]_vars

-----------------------------------------------------------------------------
(* Properties *)

\* a classification pass has just returned its tables
PassDone == last.success /\ last.op \in {"analyze_only", "analyze_and_export"}

\* the normalized key of row i of the file
RowKey(i) ==
    << Max2(df[i].OLCU1, df[i].OLCU2), Min2(df[i].OLCU1, df[i].OLCU2), df[i].MALZEME >>

\* the thickness the material registry holds for row i (18 when it holds none)
RegistryThickness(i) ==
    IF df[i].MALZEME \in DOMAIN materials THEN materials[df[i].MALZEME] ELSE 18

RowGrooved(i) == check_kanalli(df[i].KANAL)

\* C1: the thickness a pass reports for a row is the material registry's
\* thickness for the row's material code, whichever rule gave the part type.
C1_ThicknessFromRegistry ==
    PassDone =>
        \A i \in 1..Len(df) : last.results[i].KALINLIK = RegistryThickness(i)

\* a learned override gave the type of a panel whose material is registered
\* with a thickness that is neither the default nor a tier threshold
C1_Witness ==
    /\ PassDone
    /\ RowKey(1) \in DOMAIN learned
    /\ last.results[1].TIP = "TEZGAH"
    /\ RegistryThickness(1) = 25
    /\ last.results[1].KALINLIK = 25

C3_NoGroovedShelf ==
    PassDone =>
        \A i \in 1..Len(df) :
            RowGrooved(i) => last.results[i].TIP \notin {"RAF", "RAF (UST)"}

\* the override Api.set_custom_module stored for the position of row i
ApiOverride(i) == custom_modules[df[i].POZ]

\* the profile of row i resolved field by field from the Api's override, a
\* field the override does not supply falling back to the family default or
\* the width of the module name
ExpectedProfile(i) ==
    LET family == cabinet_settings[DolapTipi(df[i].MODUL)]
    IN  [genislik |-> IF "genislik" \in DOMAIN ApiOverride(i)
                      THEN ApiOverride(i)["genislik"]
                      ELSE get_modul_genislik(df[i].MODUL),
         yukseklik |-> IF "yukseklik" \in DOMAIN ApiOverride(i)
                       THEN ApiOverride(i)["yukseklik"]
                       ELSE family["yukseklik"],
         derinlik |-> IF "derinlik" \in DOMAIN ApiOverride(i)
                      THEN ApiOverride(i)["derinlik"]
                      ELSE family["derinlik"]]

\* C4: after Api.set_custom_module(poz, values), a pass through Api.analyze_file
\* resolves width, height and depth of every row of that position from the
\* override, field by field.
C4_OverrideApplied ==
    (last.success /\ last.op = "analyze_only") =>
        \A i \in 1..Len(df) :
            df[i].POZ \in DOMAIN custom_modules => last.profiles[i] = ExpectedProfile(i)

\* C5: a row with no learned override whose registry thickness is at most 8
\* is typed within the back-panel family only.
C5_ThinTierOnlyBackPanels ==
    PassDone =>
        \A i \in 1..Len(df) :
            (RowKey(i) \notin DOMAIN learned /\ RegistryThickness(i) <= 8)
                => last.results[i].TIP \in {"ARKALIK", "ARKALIK (ICERDE)"}

\* an 8 mm panel with the dimensions of a side panel was typed as back panel
C5_Witness ==
    /\ PassDone
    /\ last.op = "analyze_only"
    /\ RowKey(1) \notin DOMAIN learned
    /\ RegistryThickness(1) = 8
    /\ last.results[1].BOY = 720
    /\ last.results[1].EN = 580
    /\ last.results[1].TIP = "ARKALIK"

\* the type the geometric rules of the pass give row i, the thickness left aside
GeometricType(i) ==
    LET boy == Max2(df[i].OLCU1, df[i].OLCU2)
        en == Min2(df[i].OLCU1, df[i].OLCU2)
        profile == ResolveProfile(df[i], AnalyzerCustomModules, AnalyzerCabinetSettings)
    IN  IF last.op = "analyze_only"
        THEN StructuralType(boy, en, RowGrooved(i), DolapTipi(df[i].MODUL),
                            profile.genislik, profile.yukseklik, profile.derinlik,
                            Tolerans(settings))
        ELSE ExportGeometryType(boy, en, RowGrooved(i), Tolerans(settings))

\* C6: a 16 mm row with no learned override gets the type of the geometric
\* rule (side, top/bottom, fixed, shelf) it matches, and is a drawer side
\* exactly when it matches none of them (never rail or other).
C6_DrawerSideAfterGeometry ==
    PassDone =>
        \A i \in 1..Len(df) :
            (RowKey(i) \notin DOMAIN learned /\ RegistryThickness(i) = 16)
                => last.results[i].TIP =
                        (IF GeometricType(i) \in {"KAYIT/KUSAK", "DIGER"}
                         THEN "CEKMECE YANI"
                         ELSE GeometricType(i))

\* how many rows of a table equal the line
Occurrences(table, line) == Cardinality({j \in 1..Len(table) : table[j] = line})

\* C7: every aggregated line is in exactly one output table: the thin table
\* when its thickness is at most 8, a structural table otherwise.
C7_EveryLineInOneTier ==
    PassDone =>
        \A k \in 1..Len(last.summary) :
            LET line == last.summary[k]
            IN  /\ Occurrences(last.body, line) + Occurrences(last.d16, line)
                        + Occurrences(last.thin, line) = 1
                /\ (line.KALINLIK <= 8) <=> (Occurrences(last.thin, line) = 1)

\* the group columns of the pass
PassGroupCols ==
    IF last.op = "analyze_only"
    THEN {"KALINLIK", "MALZEME", "BOY", "EN", "TIP", "KANALLI"}
    ELSE {"KALINLIK", "MALZEME", "BOY", "EN", "TIP"}

SameGroup(a, b) == \A c \in PassGroupCols : a[c] = b[c]

RECURSIVE QuantityOf(_, _)
\* the sum of the quantities of the rows of seq numbered in idx
QuantityOf(seq, idx) ==
    IF idx = {} THEN 0
    ELSE LET i == CHOOSE j \in idx : TRUE
         IN  seq[i].ADET + QuantityOf(seq, idx \ {i})

\* C8: the aggregation holds exactly one line per group key among the
\* classified rows, with the summed quantity of the rows of that key, so the
\* quantities of the lines add up to those of the input rows.
C8_OneLinePerKeySummed ==
    PassDone =>
        /\ \A i \in 1..Len(last.results) :
                Cardinality({k \in 1..Len(last.summary) :
                                SameGroup(last.summary[k], last.results[i])}) = 1
        /\ \A k \in 1..Len(last.summary) :
                LET rows == {i \in 1..Len(last.results) :
                                SameGroup(last.summary[k], last.results[i])}
                IN  /\ rows # {}
                    /\ last.summary[k].ADET = QuantityOf(last.results, rows)
        /\ QuantityOf(last.summary, 1..Len(last.summary)) = QuantityOf(df, 1..Len(df))

\* two rows measured 580 x 720 and 720 x 580, of quantity 2 each, became one
\* line of quantity 4
C8_Witness ==
    /\ PassDone
    /\ Len(df) = 2
    /\ df[1].OLCU1 = 580 /\ df[1].OLCU2 = 720 /\ df[1].ADET = 2
    /\ df[2].OLCU1 = 720 /\ df[2].OLCU2 = 580 /\ df[2].ADET = 2
    /\ Len(last.summary) = 1
    /\ last.summary[1].ADET = 4

\* (rank of the part type in the priority list, material, length, width)
TierKey(line) ==
    << SortOrder(line.TIP), StrRank(line.MALZEME), line.BOY, line.EN >>

TierOrdered(table) ==
    \A i, j \in 1..Len(table) :
        i < j => (TierKey(table[i]) = TierKey(table[j])
                    \/ LexLess(TierKey(table[i]), TierKey(table[j])))

\* C9: in every table a pass returns, the lines are ordered by the rank of
\* their part type in the priority list, then material, then length, then width.
C9_TiersInPriorityOrder ==
    PassDone => TierOrdered(last.body) /\ TierOrdered(last.d16) /\ TierOrdered(last.thin)

\* the label without its grooved qualifier; a label without one is itself
PlainLabel(tip) ==
    CASE tip = "YAN (KANALLI)" -> "YAN"
      [] tip = "ALT-UST (KANALLI)" -> "ALT-UST"
      [] tip = "YAN (K)" -> "YAN"
      [] tip = "ALT-UST (K)" -> "ALT-UST"
      [] OTHER -> tip

\* C10: a grooved label ranks right after its non-grooved counterpart and
\* never as an unknown type.
C10_GroovedRanksAfterPlain ==
    PassDone =>
        \A k \in 1..Len(last.summary) :
            LET tip == last.summary[k].TIP
            IN  PlainLabel(tip) # tip =>
                    /\ SortOrder(tip) = SortOrder(PlainLabel(tip)) + 1
                    /\ SortOrder(tip) # UnknownOrder

\* the pass that produced last, run on other rows under the registries of the state
Rerun(rows) ==
    IF last.op = "analyze_only"
    THEN analyze_only(rows, materials, learned, settings,
                      AnalyzerCustomModules, AnalyzerCabinetSettings)
    ELSE analyze_and_export(rows, materials, learned, settings)

\* every row followed by a copy of itself
Duplicate(rows) == [i \in 1..(2 * Len(rows)) |-> rows[(i + 1) \div 2]]

\* the lines of a table with every quantity doubled
Doubled(table) == [i \in 1..Len(table) |-> [table[i] EXCEPT !.ADET = 2 * @]]

\* C11: a pass over the file with every row duplicated returns the same group
\* keys and the same lines in the same order in every tier, each quantity doubled.
C11_DuplicationDoubles ==
    PassDone =>
        LET twice == Rerun(Duplicate(df))
        IN  /\ twice.summary = Doubled(last.summary)
            /\ twice.body = Doubled(last.body)
            /\ twice.d16 = Doubled(last.d16)
            /\ twice.thin = Doubled(last.thin)

\* a file of two rows gave a body tier of two lines, one of them of quantity 2;
\* the duplicated file gives it quantity 4
C11_Witness ==
    /\ PassDone
    /\ Len(df) = 2
    /\ Len(last.body) = 2
    /\ last.body[2].ADET = 2
    /\ Rerun(Duplicate(df)).body[2].ADET = 4

\* the bijections of 1..n
Perms(n) == {f \in [1..n -> 1..n] : \A i, j \in 1..n : f[i] = f[j] => i = j}

\* C12: the tiers a pass returns (lines, quantities, order) are the same for
\* every permutation of the rows of the file.
C12_RowOrderIrrelevant ==
    PassDone =>
        \A f \in Perms(Len(df)) :
            LET other == Rerun([i \in 1..Len(df) |-> df[f[i]]])
            IN  /\ other.body = last.body
                /\ other.d16 = last.d16
                /\ other.thin = last.thin

\* two different rows gave two lines of one tier that the sort keys of
\* analyze_only do not tell apart (same material, thickness, type and length)
C12_Witness ==
    /\ PassDone
    /\ last.op = "analyze_only"
    /\ Len(df) = 2
    /\ df[1] # df[2]
    /\ Len(last.body) = 2
    /\ last.body[1].MALZEME = last.body[2].MALZEME
    /\ last.body[1].TIP = last.body[2].TIP
    /\ last.body[1].BOY = last.body[2].BOY

\* the lines of the tables a pass returns
ReturnedLines == last.body \o last.d16 \o last.thin

\* C13: total_parts is the sum of the quantities of the lines of the returned
\* tables and type_count the number of distinct part types among them.
C13_ScalarsFromTiers ==
    PassDone =>
        /\ last.total_parts = QuantityOf(ReturnedLines, 1..Len(ReturnedLines))
        /\ last.type_count = Cardinality({ReturnedLines[i].TIP : i \in 1..Len(ReturnedLines)})

\* C14: every row of a pass is classified against the registry values that
\* held when the pass started, whatever other calls were served meanwhile.
C14_PassUsesStartValues ==
    pass.phase = "done" =>
        /\ pass.results = OnlyResults(df, pass.materials_db, pass.learned_parts,
                                      Tolerans(pass.settings),
                                      pass.start_modules, pass.start_cabinet)
        /\ \A i \in 1..Len(df) :
                pass.profiles[i] = ResolveProfile(df[i], pass.start_modules, pass.start_cabinet)

\* C15: scenario B: a non-grooved 564 x 579 panel of an 18 mm material in a
\* module of 600 mm, lower-family depth 580, default settings, no learned
\* override, is a top/bottom panel.
C15_ScenarioB ==
    (/\ last.success /\ last.op = "analyze_only"
     /\ df[1].OLCU1 = 564 /\ df[1].OLCU2 = 579
     /\ ~RowGrooved(1)
     /\ RegistryThickness(1) = 18
     /\ RowKey(1) \notin DOMAIN learned
     /\ Tolerans(settings) = DefaultTolerans
     /\ last.profiles[1] = [genislik |-> 600, yukseklik |-> 720, derinlik |-> 580])
        => last.results[1].TIP = "ALT-UST"

\* C18: Api.set_cabinet_settings with a cabinet type other than alt, ust, boy
\* fails and leaves the cabinet settings of the Api and of its analyzer as they
\* were; with a valid type it changes the supplied fields of that family only.
C18_SetCabinetSettingsEffect ==
    [][\A t \in CabinetTypes, v \in CabinetValues :
          SetCabinetSettingsOf({t}, {v}) =>
              IF t \notin {"alt", "ust", "boy"}
              THEN /\ ~last'.success
                   /\ cabinet_settings' = cabinet_settings
                   /\ AnalyzerCabinetSettings' = AnalyzerCabinetSettings
              ELSE /\ last'.success
                   /\ \A u \in (DOMAIN cabinet_settings) \ {t} :
                        cabinet_settings'[u] = cabinet_settings[u]
                   /\ \A f \in {"yukseklik", "derinlik"} :
                        cabinet_settings'[t][f] =
                            (IF f \in DOMAIN v THEN v[f] ELSE cabinet_settings[t][f])
                   /\ DOMAIN cabinet_settings' = DOMAIN cabinet_settings
                   /\ AnalyzerCabinetSettings' = cabinet_settings']_vars

\* a call with an invalid type has just failed, after a valid call had changed
\* the height of the lower family only
C18_Witness ==
    /\ ~last.success
    /\ last.op = "set_cabinet_settings"
    /\ cabinet_settings =
            [DefaultCabinetSettings EXCEPT !["alt"] = [yukseklik |-> 800, derinlik |-> 580]]
    /\ AnalyzerCabinetSettings = cabinet_settings

\* the cell is empty or does not read as a number
Unreadable(cell) == ~IsNumeric(cell)

\* C16: a row whose two dimension cells are missing or non-numeric is
\* normalized to 0 x 0 and gets the type DIGER, whatever its material, the
\* material's thickness and the cabinet profile, when no learned override
\* matches.
C16_UnreadableIsOther ==
    PassDone =>
        \A i \in 1..Len(df) :
            (/\ Unreadable(df[i].CELL1) /\ Unreadable(df[i].CELL2)
             /\ RowKey(i) \notin DOMAIN learned)
                => /\ last.results[i].BOY = 0
                   /\ last.results[i].EN = 0
                   /\ last.results[i].TIP = "DIGER"

\* C16 as the code has it: such a row is normalized to 0 x 0 and is typed by
\* its material's thickness alone: ARKALIK up to 8 mm, CEKMECE YANI at 16 mm
\* in analyze_and_export, DIGER otherwise.
C16_UnreadableTypedByThickness ==
    PassDone =>
        \A i \in 1..Len(df) :
            (/\ Unreadable(df[i].CELL1) /\ Unreadable(df[i].CELL2)
             /\ RowKey(i) \notin DOMAIN learned)
                => /\ last.results[i].BOY = 0
                   /\ last.results[i].EN = 0
                   /\ last.results[i].TIP =
                        (IF RegistryThickness(i) <= ARKALIK_KALINLIK THEN "ARKALIK"
                         ELSE IF /\ RegistryThickness(i) = CEKMECE_YAN_KALINLIK
                                 /\ last.op = "analyze_and_export"
                              THEN "CEKMECE YANI"
                         ELSE "DIGER")

\* an empty cell and a word, a 25 mm material, a module of 600 mm under a
\* changed lower profile: the line is 0 x 0 and DIGER
C16_Witness ==
    /\ PassDone
    /\ last.op = "analyze_only"
    /\ df[1].CELL1 = << >>
    /\ df[1].CELL2 = << "a", "b", "c" >>
    /\ df[1].MODUL = AltDolap60
    /\ RegistryThickness(1) = 25
    /\ cabinet_settings["alt"] = TallShallow
    /\ last.results[1].BOY = 0
    /\ last.results[1].EN = 0
    /\ last.results[1].TIP = "DIGER"

\* the line a pass makes of the same row with its two dimensions exchanged
Exchanged(i) ==
    LET row == [df[i] EXCEPT !.OLCU1 = df[i].OLCU2, !.OLCU2 = df[i].OLCU1]
    IN  IF last.op = "analyze_only"
        THEN OnlyResults(<< row >>, materials, learned, Tolerans(settings),
                         AnalyzerCustomModules, AnalyzerCabinetSettings)[1]
        ELSE ExportResults(<< row >>, materials, learned, Tolerans(settings))[1]

\* C19: for all raw dimensions the line of a row has length = max, width = min
\* and length >= width >= 0, in the classified and in the aggregated lines, and
\* the row with its dimensions exchanged gives the same length, width, type
\* and thickness.
C19_NormalizedDimensions ==
    PassDone =>
        /\ \A i \in 1..Len(df) :
            /\ last.results[i].BOY = Max2(df[i].OLCU1, df[i].OLCU2)
            /\ last.results[i].EN = Min2(df[i].OLCU1, df[i].OLCU2)
            /\ last.results[i].BOY >= last.results[i].EN
            /\ last.results[i].EN >= 0
            /\ Exchanged(i).BOY = last.results[i].BOY
            /\ Exchanged(i).EN = last.results[i].EN
            /\ Exchanged(i).TIP = last.results[i].TIP
            /\ Exchanged(i).KALINLIK = last.results[i].KALINLIK
        /\ \A j \in 1..Len(last.summary) :
            last.summary[j].BOY >= last.summary[j].EN /\ last.summary[j].EN >= 0

\* C17: a row whose material code the registry does not hold is classified
\* and reports the structural default thickness of the settings
\* (govde_kalinlik); it is in no thin table.
C17_UnknownMaterialGetsConfiguredDefault ==
    PassDone =>
        \A i \in 1..Len(df) :
            df[i].MALZEME \notin DOMAIN materials =>
                /\ last.results[i].KALINLIK = get_settings(settings)["govde_kalinlik"]
                /\ \A j \in 1..Len(last.thin) : last.thin[j].MALZEME # df[i].MALZEME

\* C20: the thresholds of the rules are those of the settings: the next pass
\* puts a row in the back-panel family exactly when its material's thickness
\* is at most the saved arkalik_max_kalinlik.
C20_ThresholdsFromSettings ==
    PassDone =>
        \A i \in 1..Len(df) :
            RowKey(i) \notin DOMAIN learned =>
                ((RegistryThickness(i) <= get_settings(settings)["arkalik_max_kalinlik"])
                    <=> last.results[i].TIP \in {"ARKALIK", "ARKALIK (ICERDE)"})

\* the preview pass has just returned its tables
PreviewDone == last.success /\ last.op = "analyze_only"

\* row i is classified by the rules of its tier: no learned override matches
NoOverride(i) == RowKey(i) \notin DOMAIN learned

\* |x - target| is within the tolerance of the settings
Within(x, target) ==
    x - target <= Tolerans(settings) /\ target - x <= Tolerans(settings)

\* the width of the cabinet of row i is known
WidthKnown(i) == last.profiles[i].genislik # 0

\* length and width of row i are those of a back panel set off by d on each side
BackPanelAt(i, d) ==
    /\ WidthKnown(i)
    /\ Within(RowKey(i)[1], last.profiles[i].yukseklik - d)
    /\ Within(RowKey(i)[2], last.profiles[i].genislik - d)

\* C21: a thin-tier row with no learned override is ARKALIK when it is a back
\* panel at 18, else ARKALIK (ICERDE) when it is one at 37, else a catch-all
\* type that is neither of the two; ARKALIK wins when both hold.
C21_ThinTierThreeTypes ==
    PreviewDone =>
        \A i \in 1..Len(df) :
            (NoOverride(i) /\ RegistryThickness(i) <= 8) =>
                IF BackPanelAt(i, 18) THEN last.results[i].TIP = "ARKALIK"
                ELSE IF BackPanelAt(i, 37) THEN last.results[i].TIP = "ARKALIK (ICERDE)"
                ELSE last.results[i].TIP \notin {"ARKALIK", "ARKALIK (ICERDE)"}

\* C21 as the code has it: the catch-all of the thin tier is ARKALIK again
C21_ThinTierCatchAllIsBackPanel ==
    PreviewDone =>
        \A i \in 1..Len(df) :
            (NoOverride(i) /\ RegistryThickness(i) <= 8) =>
                IF BackPanelAt(i, 18) THEN last.results[i].TIP = "ARKALIK"
                ELSE IF BackPanelAt(i, 37) THEN last.results[i].TIP = "ARKALIK (ICERDE)"
                ELSE last.results[i].TIP = "ARKALIK"

\* both back-panel predicates hold for a thin 692 x 572 panel of a 600 mm
\* cabinet under tolerance 15, and the panel is ARKALIK
C21_Witness ==
    /\ PreviewDone
    /\ NoOverride(1)
    /\ RegistryThickness(1) = 8
    /\ RowKey(1)[1] = 692 /\ RowKey(1)[2] = 572
    /\ BackPanelAt(1, 18)
    /\ BackPanelAt(1, 37)
    /\ last.results[1].TIP = "ARKALIK"

\* the cabinet width, height and depth the analyzer resolves for row i
Resolved(i) == ResolveProfile(df[i], AnalyzerCustomModules, AnalyzerCabinetSettings)

\* row i belongs to the structural tier and no learned override matches it
Structural(i) == NoOverride(i) /\ RegistryThickness(i) > 8

\* length and width of row i are the height and the depth of its cabinet
SideOfCabinet(i) ==
    /\ Within(RowKey(i)[1], Resolved(i).yukseklik)
    /\ Within(RowKey(i)[2], Resolved(i).derinlik)

\* the line of row i has the type tip; for a grooved row the qualifier is in
\* the label or, in the preview, in the KANALLI flag beside it
Labelled(i, tip) ==
    IF ~RowGrooved(i) THEN last.results[i].TIP = tip
    ELSE IF last.op = "analyze_only"
    THEN last.results[i].TIP = tip /\ last.results[i].KANALLI
    ELSE last.results[i].TIP = tip \o " (KANALLI)"

\* C22: a structural-tier row with no learned override whose length and width
\* are within tolerance of the resolved cabinet height and depth is a side
\* panel, with the grooved qualifier when the row is grooved.
C22_SidePanel ==
    PassDone =>
        \A i \in 1..Len(df) :
            (Structural(i) /\ SideOfCabinet(i)) => Labelled(i, "YAN")

\* length and width of row i are the values the width rule of tip expects,
\* computed from the resolved width and depth of its cabinet
WidthRule(i, tip) ==
    LET boy == RowKey(i)[1]
        en == RowKey(i)[2]
        gen == Resolved(i).genislik
        der == Resolved(i).derinlik
        ust == DolapTipi(df[i].MODUL) = "ust"
    IN  /\ gen # 0
        /\ CASE tip = "ALT-UST" -> Within(boy, gen - 36) /\ Within(en, der - 1)
             [] tip = "SABIT" -> Within(boy, gen - 36) /\ Within(en, der - 23)
             [] tip = "RAF" ->
                    ~ust /\ ~RowGrooved(i) /\ Within(boy, gen - 37) /\ Within(en, der - 50)
             [] tip = "RAF (UST)" ->
                    ust /\ ~RowGrooved(i) /\ Within(boy, gen - 37) /\ Within(en, der - 40)
             [] OTHER -> FALSE

\* the width of row i is one of the fixed values the pass holds for tip
FixedRule(i, tip) ==
    LET en == RowKey(i)[2]
        preview == last.op = "analyze_only"
    IN  CASE tip = "ALT-UST" ->
                \E v \in (IF preview THEN {579, 329} ELSE {579, 329, 549, 529, 559}) :
                    Within(en, v)
          [] tip = "SABIT" -> preview /\ \E v \in {557, 307} : Within(en, v)
          [] tip = "RAF" ->
                /\ ~RowGrooved(i)
                /\ \E v \in (IF preview THEN {530} ELSE {530, 520, 510, 500, 480, 450}) :
                    Within(en, v)
          [] tip = "RAF (UST)" ->
                /\ ~RowGrooved(i)
                /\ \E v \in (IF preview THEN {290} ELSE {290, 280, 270, 260}) :
                    Within(en, v)
          [] OTHER -> FALSE

WidthTypes == {"ALT-UST", "SABIT", "RAF", "RAF (UST)"}

\* C23: a structural-tier row with no learned override is top/bottom, fixed
\* or shelf only if the width of its cabinet is resolvable and its length and
\* width are those the rule expects from the resolved width and depth; with
\* no width it is none of the three.
C23_WidthRulesNeedWidth ==
    PassDone =>
        \A i \in 1..Len(df) :
            (Structural(i) /\ PlainLabel(last.results[i].TIP) \in WidthTypes)
                => WidthRule(i, PlainLabel(last.results[i].TIP))

\* C23 as the code has it: such a label is given by the width rule, in the
\* preview and with a resolvable width, or by a fixed-value rule of the pass
C23_WidthRuleOrFixedValue ==
    PassDone =>
        \A i \in 1..Len(df) :
            (Structural(i) /\ PlainLabel(last.results[i].TIP) \in WidthTypes)
                => \/ last.op = "analyze_only"
                      /\ WidthRule(i, PlainLabel(last.results[i].TIP))
                   \/ FixedRule(i, PlainLabel(last.results[i].TIP))

\* a 764 x 579 panel with no module name is top/bottom in the preview
C23_Witness ==
    /\ PreviewDone
    /\ Structural(1)
    /\ Resolved(1).genislik = 0
    /\ RowKey(1)[1] = 764 /\ RowKey(1)[2] = 579
    /\ FixedRule(1, "ALT-UST")
    /\ last.results[1].TIP = "ALT-UST"

\* the thickness dispatch of the export makes row i a drawer side
DrawerSideByThickness(i) ==
    last.op = "analyze_and_export" /\ RegistryThickness(i) = 16

\* row i meets a side rule of the export: one of the three standard sides, or
\* a standard height with a depth of 300..600 that is grooved or standard
ExportSide(i) ==
    LET boy == RowKey(i)[1]
        en == RowKey(i)[2]
    IN  \/ Within(boy, 720) /\ Within(en, 330)
        \/ Within(boy, 720) /\ Within(en, 580)
        \/ Within(boy, 2100) /\ Within(en, 580)
        \/ /\ Within(boy, 720) \/ Within(boy, 2100)
           /\ 300 <= en /\ en <= 600
           /\ RowGrooved(i) \/ Within(en, 580) \/ Within(en, 330)

\* row i meets a rule the pass tests before the rail band
EarlierRule(i) ==
    \/ IF last.op = "analyze_only" THEN SideOfCabinet(i) ELSE ExportSide(i)
    \/ \E tip \in WidthTypes :
        \/ last.op = "analyze_only" /\ WidthRule(i, tip)
        \/ FixedRule(i, tip)

\* the length or the width of row i is in the band 80..140
InRailBand(i) ==
    \/ 80 <= RowKey(i)[1] /\ RowKey(i)[1] <= 140
    \/ 80 <= RowKey(i)[2] /\ RowKey(i)[2] <= 140

\* C24: a structural-tier row with no learned override that meets no earlier
\* rule is KAYIT/KUSAK exactly when its length or its width is in 80..140 and
\* DIGER otherwise, and a row that meets an earlier rule is neither.
C24_RailBandLast ==
    PassDone =>
        \A i \in 1..Len(df) :
            (Structural(i) /\ ~DrawerSideByThickness(i)) =>
                IF EarlierRule(i)
                THEN last.results[i].TIP \notin {"KAYIT/KUSAK", "DIGER"}
                ELSE last.results[i].TIP =
                        (IF InRailBand(i) THEN "KAYIT/KUSAK" ELSE "DIGER")

\* scenario D: 100 x 40, 18 mm, no module width, is a rail by its length
C24_Witness ==
    /\ PreviewDone
    /\ Structural(1)
    /\ RegistryThickness(1) = 18
    /\ RowKey(1)[1] = 100 /\ RowKey(1)[2] = 40
    /\ Resolved(1).genislik = 0
    /\ ~EarlierRule(1)
    /\ last.results[1].TIP = "KAYIT/KUSAK"

\* the cabinet family of row i
Family(i) == DolapTipi(df[i].MODUL)

\* C25: in the preview the structural rules are tried in the order side,
\* top/bottom, fixed, shelf: a row with no learned override gets the type of
\* the first rule whose predicate it meets, whatever later predicate it meets
\* too; and the shelf type is RAF (UST) exactly for the upper family and RAF
\* for the lower and the tall one.
C25_FirstMatchWins ==
    PreviewDone =>
        \A i \in 1..Len(df) :
            Structural(i) =>
                LET side == SideOfCabinet(i)
                    topbottom == WidthRule(i, "ALT-UST")
                    fixed == WidthRule(i, "SABIT")
                    shelf == WidthRule(i, "RAF") \/ WidthRule(i, "RAF (UST)")
                    tip == last.results[i].TIP
                IN  /\ side => tip = "YAN"
                    /\ (~side /\ topbottom) => tip = "ALT-UST"
                    /\ (~side /\ ~topbottom /\ fixed) => tip = "SABIT"
                    /\ (~side /\ ~topbottom /\ ~fixed /\ shelf) =>
                            tip = (IF Family(i) = "ust" THEN "RAF (UST)" ELSE "RAF")
                    /\ tip = "RAF (UST)" => Family(i) = "ust"
                    /\ tip = "RAF" => Family(i) \in {"alt", "boy"}

\* the tuples the two classifiers return for row i under the registries of the
\* state, the default family profiles and no per-position override
PreviewOf(i) ==
    determine_part_type_with_module(df[i], materials, learned, Tolerans(settings),
                                    EmptyDict, DefaultCabinetSettings)

ExportOf(i) == determine_part_type(df[i], materials, learned, Tolerans(settings))

\* C26: for the same row and registries the preview and the export give the
\* same thickness and the same part type, the grooved qualifier left aside.
C26_PreviewAndExportAgree ==
    PassDone =>
        \A i \in 1..Len(df) :
            /\ PreviewOf(i).kalinlik = ExportOf(i).kalinlik
            /\ PreviewOf(i).tip = PlainLabel(ExportOf(i).tip)

\* C27: after any calls of set_custom_module, clear_custom_depths,
\* set_cabinet_settings and reset_cabinet_settings the analyzer consults the
\* override table and the family profiles that the Api holds, and a pass
\* applies exactly the overrides of the Api's table.
C27_AnalyzerReadsApiTables ==
    /\ AnalyzerCustomModules = custom_modules
    /\ AnalyzerCabinetSettings = cabinet_settings
    /\ PreviewDone =>
        \A i \in 1..Len(df) :
            last.profiles[i] = ResolveProfile(df[i], custom_modules, cabinet_settings)

\* C28: after any add_history and delete_history calls, stats.total_jobs is
\* the number of history rows and stats.total_parts the sum of their
\* total_parts, and neither is negative.
C28_StatsMatchHistory ==
    /\ db.stats.total_jobs = Len(db.history)
    /\ db.stats.total_parts = SumTotalParts(db.history)
    /\ db.stats.total_jobs >= 0
    /\ db.stats.total_parts >= 0

\* a delete_history call with two ids deleted one row and left one of the
\* three jobs added, the first having been deleted before
C28_Witness ==
    /\ last.op = "delete_history"
    /\ last.total_parts = 1
    /\ db.seq = 3
    /\ Len(db.history) = 1
    /\ db.history[1].id = 2
    /\ db.history[1].total_parts = 5
    /\ db.stats = [total_jobs |-> 1, total_parts |-> 5]

\* the sum of stats.parts over jobs
RECURSIVE SumStatsParts(_)
SumStatsParts(jobs) ==
    IF jobs = << >> THEN 0 ELSE Head(jobs).stats.parts + SumStatsParts(Tail(jobs))

\* the lines stored with a job add up to its stats.parts
LinesAccountForParts(job) ==
    SumADET(job.results.body) + SumADET(job.results.thin) = job.stats.parts

\* C29: the lines stored with every job of the history account for every part
\* counted in its stats.parts, and a merge of jobs reports the sum of their
\* stats.parts.
C29_StoredLinesAccountForParts ==
    /\ \A k \in 1..Len(db.history) :
            LinesAccountForParts(get_history_by_ids(db, << db.history[k].id >>)[1])
    /\ \A job_ids \in IdLists :
            LET jobs == get_history_by_ids(db, job_ids)
            IN  jobs # << >> =>
                    /\ api_merge_jobs(db, job_ids, TRUE).success
                    /\ api_merge_jobs(db, job_ids, TRUE).total_parts = SumStatsParts(jobs)

\* the token of the user's most recent remember-me login if no logout of the
\* user was served since, else 0
RECURSIVE ExpectedToken(_, _)
ExpectedToken(calls, username) ==
    IF calls = << >> THEN 0
    ELSE LET c == calls[Len(calls)]
         IN  IF c[2] = username THEN (IF c[1] = "login" THEN c[3] ELSE 0)
             ELSE ExpectedToken(SubSeq(calls, 1, Len(calls) - 1), username)

\* the tokens the remember-me logins of a user returned
IssuedTo(calls, username) ==
    {calls[k][3] : k \in {j \in 1..Len(calls) :
                            calls[j][1] = "login" /\ calls[j][2] = username}}

\* C30: a token verifies for a user only if it is the token of the user's
\* most recent remember-me login and the user has not logged out since; after
\* a logout no token verifies for the user; a token given to one user never
\* verifies for another.
C30_OnlyLatestTokenVerifies ==
    /\ \A username \in UserNames, token \in Tokens :
            verify_session_token(um.users, username, token)
                => token # 0 /\ token = ExpectedToken(um.calls, username)
    /\ \A username \in UserNames :
            ExpectedToken(um.calls, username) = 0
                => \A token \in Tokens : ~verify_session_token(um.users, username, token)
    /\ \A username \in UserNames :
            \A other \in UserNames \ {username}, token \in IssuedTo(um.calls, username) :
                ~verify_session_token(um.users, other, token)
    /\ um.result.op \in {"login_with_token", "check_saved_session"} /\ um.result.success
            => um.result.token = ExpectedToken(um.calls, um.result.username)

\* a user logged in with remember-me, logged out, logged in again, and
\* login_with_token succeeded with the second token
C30_Witness ==
    /\ um.calls = << << "login", "usta", 1 >>, << "logout", "usta", 0 >>,
                     << "login", "usta", 2 >> >>
    /\ um.result = UserResult("login_with_token", "usta", 2, TRUE)
    /\ ~verify_session_token(um.users, "usta", 1)
    /\ ~verify_session_token(um.users, "admin", 2)

=============================================================================
